---- MODULE Spec2Model ----
(***************************************************************************)
(* Model of scripts/fetch_glotec_daily.py: parse_listing, choose_3hourly,  *)
(* prune_old_day_folders and main, with the calendar arithmetic of the     *)
(* datetime calls they make.                                               *)
(*                                                                         *)
(* Fixed-width digit strings are modelled by the number they spell: the    *)
(* 8-digit token YYYYMMDD by a number in 0..99999999, the 6-digit token    *)
(* HHMMSS by a number in 0..999999.  A date is its proleptic Gregorian     *)
(* ordinal, a datetime is [day |-> ordinal, sec |-> second of the day].    *)
(***************************************************************************)
EXTENDS Integers, Sequences, FiniteSets, TLC

VARIABLES
    list_json,      \* parse_listing: the payload handed to it
    parse_out,      \* parse_listing: its outcome ("idle" before the call)
    sel_in,         \* choose_3hourly: [items, day] handed to it
    sel_out,        \* choose_3hourly: [st, chosen, uniq]
    prune_in,       \* prune_old_day_folders: [fs, keep_days, dry_run, today]
    prune_out,      \* prune_old_day_folders: [st, r], r its outcome
    env,            \* main: the environment [DAY_UTC, KEEP_DAYS, DRY_RUN_PRUNE]
    srv,            \* main: the server [listing, empty]
    clock,          \* main: [now, ticks], the UTC clock
    disk,           \* main: the output directory
    job,            \* main: the run in progress or just ended
    hist            \* main: [runs, prev, base], the runs before this one

pureVars == <<list_json, parse_out, sel_in, sel_out, prune_in, prune_out>>
mainVars == <<env, srv, clock, disk, job, hist>>
vars == <<pureVars, mainVars>>

(***************************************************************************)
(* Calendar arithmetic (datetime.strptime, date.toordinal, date - delta).  *)
(***************************************************************************)
IsLeap(y) == (y % 4 = 0) /\ ((y % 100 # 0) \/ (y % 400 = 0))

DaysInMonth(y, m) ==
    IF m = 2 THEN (IF IsLeap(y) THEN 29 ELSE 28)
    ELSE IF m \in {4, 6, 9, 11} THEN 30 ELSE 31

RECURSIVE DaysBeforeMonth(_, _)
DaysBeforeMonth(y, m) ==
    IF m <= 1 THEN 0 ELSE DaysBeforeMonth(y, m - 1) + DaysInMonth(y, m - 1)

DaysBeforeYear(y) ==
    LET p == y - 1 IN p * 365 + (p \div 4) - (p \div 100) + (p \div 400)

\* date(y, m, d).toordinal()
ToOrdinal(y, m, d) == DaysBeforeYear(y) + DaysBeforeMonth(y, m) + d

YearOf(ymd)  == ymd \div 10000
MonthOf(ymd) == (ymd \div 100) % 100
DayOf(ymd)   == ymd % 100

\* datetime.strptime(token, "%Y%m%d") succeeds (no ValueError)
ValidYmd(ymd) ==
    /\ YearOf(ymd) >= 1
    /\ MonthOf(ymd) \in 1..12
    /\ DayOf(ymd) \in 1..DaysInMonth(YearOf(ymd), MonthOf(ymd))

\* the "%H%M%S" part of the same call
ValidHms(hms) ==
    /\ (hms \div 10000) \in 0..23
    /\ ((hms \div 100) % 100) \in 0..59
    /\ (hms % 100) \in 0..59

\* datetime.strptime(token, "%Y%m%d").date(), as an ordinal (token valid)
DateOfYmd(ymd) == ToOrdinal(YearOf(ymd), MonthOf(ymd), DayOf(ymd))

SecOfHms(hms) == (hms \div 10000) * 3600 + ((hms \div 100) % 100) * 60 + (hms % 100)

\* date.fromordinal(n), as the triple <<y, m, d>>
RECURSIVE YearAt(_, _)
YearAt(n, y) == IF n > DaysBeforeYear(y + 1) THEN YearAt(n, y + 1) ELSE y

RECURSIVE MonthAt(_, _, _)
MonthAt(n, y, m) ==
    IF n > DaysBeforeYear(y) + DaysBeforeMonth(y, m + 1) THEN MonthAt(n, y, m + 1) ELSE m

FromOrdinal(n) ==
    LET y == YearAt(n, (n \div 366) + 1)
        m == MonthAt(n, y, 1)
    IN  <<y, m, n - DaysBeforeYear(y) - DaysBeforeMonth(y, m)>>

\* d.strftime("%Y%m%d") for a date given as an ordinal (years 1000..9999)
StrftimeYmd(n) ==
    LET t == FromOrdinal(n) IN t[1] * 10000 + t[2] * 100 + t[3]

\* (a - b).total_seconds() for datetimes a, b
TotalSeconds(a, b) == (a.day - b.day) * 86400 + (a.sec - b.sec)

Abs(x) == IF x < 0 THEN -x ELSE x

\* a < b and a <= b for datetimes
DtLess(a, b) == a.day < b.day \/ (a.day = b.day /\ a.sec < b.sec)
DtLeq(a, b)  == a = b \/ DtLess(a, b)

(***************************************************************************)
(* Listing values.  A JSON value that can stand where a name or a URL is   *)
(* expected is [t, id, pat, ymd, hms]:                                     *)
(*   t = "none"  : None (key absent)                                       *)
(*   t = "empty" : the empty string                                        *)
(*   t = "num"   : a non-string, truthy value (a number)                   *)
(*   t = "str"   : a non-empty string; pat says whether FNAME_RE.search    *)
(*                 finds a match in it, ymd and hms are the two groups of  *)
(*                 the match, and id stands for the rest of the text.      *)
(***************************************************************************)
NoneV  == [t |-> "none",  id |-> 0, pat |-> FALSE, ymd |-> 0, hms |-> 0]
EmptyV == [t |-> "empty", id |-> 0, pat |-> FALSE, ymd |-> 0, hms |-> 0]
NumV(i) == [t |-> "num", id |-> i, pat |-> FALSE, ymd |-> 0, hms |-> 0]
TextV(i) == [t |-> "str", id |-> i, pat |-> FALSE, ymd |-> 0, hms |-> 0]
FnameV(i, ymd, hms) == [t |-> "str", id |-> i, pat |-> TRUE, ymd |-> ymd, hms |-> hms]

\* Python truthiness of such a value, and the value of (a or b)
Truthy(v) == v.t \in {"num", "str"}
PyOr(a, b) == IF Truthy(a) THEN a ELSE b

\* A URL: BASE_DIR_URL + name (from |-> "base"), or the listing's own value
UrlOfBase(name) == [from |-> "base", v |-> name]
UrlGiven(v)     == [from |-> "given", v |-> v]

\* Elements of the payload: a string, a dict, or anything else
StrElem(v) ==
    [kind |-> "str", s |-> v, name |-> NoneV, file |-> NoneV, filename |-> NoneV,
     path |-> NoneV, url |-> NoneV, href |-> NoneV]
DictElem(n, f, fn, p, u, h) ==
    [kind |-> "dict", s |-> NoneV, name |-> n, file |-> f, filename |-> fn,
     path |-> p, url |-> u, href |-> h]
OtherElem ==
    [kind |-> "other", s |-> NoneV, name |-> NoneV, file |-> NoneV, filename |-> NoneV,
     path |-> NoneV, url |-> NoneV, href |-> NoneV]

(***************************************************************************)
(* parse_listing                                                           *)
(***************************************************************************)
\* lines 48-60: the name an element yields (NoneV for an element of another type)
ElemName(it) ==
    IF it.kind = "str" THEN it.s
    ELSE IF it.kind = "dict"
         THEN PyOr(PyOr(PyOr(it.name, it.file), it.filename), it.path)
         ELSE NoneV

\* lines 53, 56-58: the URL an element yields, once its name is known
ElemUrl(it) ==
    IF it.kind = "str" THEN UrlOfBase(it.s)
    ELSE LET u == PyOr(it.url, it.href)
         IN  IF Truthy(ElemName(it)) /\ ~Truthy(u)
             THEN UrlOfBase(ElemName(it)) ELSE UrlGiven(u)

\* line 70: the parsed timestamp of a matched name (tokens valid)
TsOfName(name) == [day |-> DateOfYmd(name.ymd), sec |-> SecOfHms(name.hms)]

\* lines 47-71, one iteration: skip the element, append a record, or raise
ParseItem(it) ==
    LET name == ElemName(it) IN
    IF it.kind = "other" THEN [act |-> "skip", exc |-> "none"]
    ELSE IF it.kind = "dict" /\ name.t = "num" /\ ~Truthy(PyOr(it.url, it.href))
         THEN [act |-> "raise", exc |-> "TypeError"]     \* BASE_DIR_URL + name
    ELSE IF ~Truthy(name) THEN [act |-> "skip", exc |-> "none"]
    ELSE IF name.t = "num" THEN [act |-> "raise", exc |-> "TypeError"]  \* FNAME_RE.search
    ELSE IF ~name.pat THEN [act |-> "skip", exc |-> "none"]
    ELSE IF ~(ValidYmd(name.ymd) /\ ValidHms(name.hms))
         THEN [act |-> "raise", exc |-> "ValueError"]    \* datetime.strptime
    ELSE [act |-> "append", exc |-> "none"]

RecordOf(it) == [name |-> ElemName(it), url |-> ElemUrl(it), ts |-> TsOfName(ElemName(it))]

\* An insertion that puts an element before the elements of equal key.
RECURSIVE InsertBeforeEqual(_, _)
InsertBeforeEqual(s, x) ==
    IF s = <<>> THEN <<x>>
    ELSE IF DtLeq(x.ts, Head(s).ts) THEN <<x>> \o s
    ELSE <<Head(s)>> \o InsertBeforeEqual(Tail(s), x)

\* line 73, list.sort: x goes after every element whose key is <= its own
RECURSIVE InsertByTs(_, _)
InsertByTs(s, x) ==
    IF s = <<>> THEN <<x>>
    ELSE IF DtLess(x.ts, Head(s).ts) THEN <<x>> \o s
    ELSE <<Head(s)>> \o InsertByTs(Tail(s), x)

\* line 73, items.sort(key=ts): the elements are inserted in list order
RECURSIVE SortFrom(_, _, _)
SortFrom(s, i, acc) ==
    IF i > Len(s) THEN acc ELSE SortFrom(s, i + 1, InsertByTs(acc, s[i]))

RECURSIVE UnstableSortFrom(_, _, _)
UnstableSortFrom(s, i, acc) ==
    IF i > Len(s) THEN acc ELSE UnstableSortFrom(s, i + 1, InsertBeforeEqual(acc, s[i]))

UnstableSortByTs(s) == UnstableSortFrom(s, 1, <<>>)

SortByTs(s) == SortFrom(s, 1, <<>>)

\* lines 46-71: the loop, from element i on, with the records appended so far
RECURSIVE ParseLoop(_, _, _)
ParseLoop(elems, i, items) ==
    IF i > Len(elems) THEN [st |-> "ok", exc |-> "none", items |-> SortByTs(items)]
    ELSE LET r == ParseItem(elems[i]) IN
         IF r.act = "raise" THEN [st |-> "raised", exc |-> r.exc, items |-> <<>>]
         ELSE IF r.act = "skip" THEN ParseLoop(elems, i + 1, items)
         ELSE ParseLoop(elems, i + 1, Append(items, RecordOf(elems[i])))

\* parse_listing(list_json), payload = [islist, elems]
parse_listing(payload) ==
    IF ~payload.islist THEN [st |-> "raised", exc |-> "ValueError", items |-> <<>>]
    ELSE ParseLoop(payload.elems, 1, <<>>)


(***************************************************************************)
(* choose_3hourly                                                          *)
(***************************************************************************)
\* dt + timedelta(hours=h)
AddHours(dt, h) ==
    LET total == dt.sec + h * 3600
    IN  [day |-> dt.day + (total \div 86400), sec |-> total % 86400]

\* line 82: range(0, 24, 3) gives the 8 targets
Targets(day_utc) == [k \in 1..8 |-> AddHours(day_utc, 3 * (k - 1))]

\* line 85: the key of min
Dist(x, t) == Abs(TotalSeconds(x.ts, t))

\* A scan that keeps the last of the minimal elements.
RECURSIVE BestLastFrom(_, _, _, _)
BestLastFrom(items, t, i, best) ==
    IF i > Len(items) THEN best
    ELSE IF Dist(items[i], t) <= Dist(best, t)
         THEN BestLastFrom(items, t, i + 1, items[i])
         ELSE BestLastFrom(items, t, i + 1, best)

\* line 85, min(iterable, key=...): the scan replaces its candidate only by
\* an element whose key is strictly smaller
RECURSIVE BestFrom(_, _, _, _)
BestFrom(items, t, i, best) ==
    IF i > Len(items) THEN best
    ELSE IF Dist(items[i], t) < Dist(best, t)
         THEN BestFrom(items, t, i + 1, items[i])
         ELSE BestFrom(items, t, i + 1, best)

BestLast(items, t) == BestLastFrom(items, t, 2, items[1])

Best(items, t) == BestFrom(items, t, 2, items[1])

\* A dedup loop that forgets to skip the names it has seen.
RECURSIVE DedupKeepAll(_, _, _, _)
DedupKeepAll(chosen, i, seen, uniq) ==
    IF i > Len(chosen) THEN uniq
    ELSE DedupKeepAll(chosen, i + 1, seen \cup {chosen[i].name}, Append(uniq, chosen[i]))

\* lines 88-94: from pick i on, with the names seen and the picks kept so far
RECURSIVE Dedup(_, _, _, _)
Dedup(chosen, i, seen, uniq) ==
    IF i > Len(chosen) THEN uniq
    ELSE IF chosen[i].name \in seen THEN Dedup(chosen, i + 1, seen, uniq)
    ELSE Dedup(chosen, i + 1, seen \cup {chosen[i].name}, Append(uniq, chosen[i]))

UniqKeepAll(chosen) == DedupKeepAll(chosen, 1, {}, <<>>)

\* lines 88-95
Uniq(chosen) == Dedup(chosen, 1, {}, <<>>)

\* choose_3hourly(items_for_day, day_utc); min of an empty list raises
choose_3hourly(items_for_day, day_utc) ==
    IF items_for_day = <<>>
    THEN [st |-> "raised", chosen |-> <<>>, uniq |-> <<>>]
    ELSE LET targets == Targets(day_utc)
             chosen == [k \in 1..8 |-> Best(items_for_day, targets[k])]
         IN  [st |-> "ok", chosen |-> chosen, uniq |-> Uniq(chosen)]


(***************************************************************************)
(* The output directory.  An entry name is [d8, n]: with d8 the name is    *)
(* the 8-digit string that spells n (DAYDIR_RE matches it), without d8 it  *)
(* is some other text, which DAYDIR_RE does not match.  fs is              *)
(*   [exists  : out_dir is a directory,                                    *)
(*    dirs    : the names of its subdirectories,                           *)
(*    files   : the names of its other entries,                            *)
(*    content : for each subdirectory, [files, index]]                     *)
(* where files maps the file names present to the bytes they hold and      *)
(* index is the manifest (<<>> when there is no index.json).               *)
(***************************************************************************)
DayName(ymd) == [d8 |-> TRUE, n |-> ymd]
TextName(i)  == [d8 |-> FALSE, n |-> i]

EmptyDir == [files |-> <<>>, index |-> <<>>]
NoFs == [exists |-> FALSE, dirs |-> {}, files |-> {}, content |-> <<>>]

\* line 133
DAYDIR_RE(name) == name.d8

\* string order of two entry names (digits sort before letters)
NameLess(a, b) == (a.d8 /\ ~b.d8) \/ (a.d8 = b.d8 /\ a.n < b.n)

\* line 129: sorted(os.listdir(out_dir))
RECURSIVE SortedNames(_)
SortedNames(S) ==
    IF S = {} THEN <<>>
    ELSE LET m == CHOOSE x \in S : \A y \in S : x = y \/ NameLess(x, y)
         IN  <<m>> \o SortedNames(S \ {m})

\* line 147: shutil.rmtree(p, ignore_errors=True), the removal succeeding
Rmtree(fs, name) ==
    [fs EXCEPT !.dirs = @ \ {name},
               !.content = [d \in (fs.dirs \ {name}) |-> fs.content[d]]]

(***************************************************************************)
(* prune_old_day_folders                                                   *)
(***************************************************************************)
LogLine(msg, name, scanned, removed, keep_days, cutoff) ==
    [msg |-> msg, name |-> name, scanned |-> scanned, removed |-> removed,
     keep_days |-> keep_days, cutoff |-> cutoff]

\* A cutoff one day late: the window holds keep_days - 1 days.
CutoffOffByOne(today, keep_days) == today - (keep_days - 2)

\* line 121: today_utc - timedelta(days=keep_days - 1)
CutoffDate(today, keep_days) == today - (keep_days - 1)

\* A test that also removes the directory dated at the cutoff.
IsOldInclusive(d, cutoff) == d <= cutoff

\* line 142
IsOld(d, cutoff) == d < cutoff

\* A loop that counts a directory only once its name has parsed as a date.
RECURSIVE PruneLoopCountLate(_, _, _, _, _)
PruneLoopCountLate(names, i, st, keep_days, cutoff) ==
    IF i > Len(names)
    THEN [st EXCEPT !.log = Append(@, LogLine("summary", TextName(0), st.scanned,
                                               st.removed, keep_days, StrftimeYmd(cutoff)))]
    ELSE LET name == names[i] IN
         IF name \notin st.fs.dirs \/ ~DAYDIR_RE(name) \/ ~ValidYmd(name.n)
         THEN PruneLoopCountLate(names, i + 1, st, keep_days, cutoff)
         ELSE IF IsOld(DateOfYmd(name.n), cutoff)
         THEN PruneLoopCountLate(names, i + 1,
                  [st EXCEPT !.fs = IF st.dry THEN @ ELSE Rmtree(@, name),
                             !.gone = IF st.dry THEN @ ELSE @ \cup {name},
                             !.log = Append(@, LogLine(IF st.dry THEN "dry" ELSE "removing",
                                                       name, 0, 0, 0, StrftimeYmd(cutoff))),
                             !.scanned = @ + 1,
                             !.removed = @ + 1],
                  keep_days, cutoff)
         ELSE PruneLoopCountLate(names, i + 1, [st EXCEPT !.scanned = @ + 1], keep_days, cutoff)

\* lines 129-150: the loop from entry i of the sorted listing on, then the
\* summary; st = [fs, dry, log, scanned, removed, gone]
RECURSIVE PruneLoop(_, _, _, _, _)
PruneLoop(names, i, st, keep_days, cutoff) ==
    IF i > Len(names)
    THEN [st EXCEPT !.log = Append(@, LogLine("summary", TextName(0), st.scanned,
                                               st.removed, keep_days, StrftimeYmd(cutoff)))]
    ELSE LET name == names[i] IN
         IF name \notin st.fs.dirs \/ ~DAYDIR_RE(name)
         THEN PruneLoop(names, i + 1, st, keep_days, cutoff)
         ELSE IF ~ValidYmd(name.n)
         THEN PruneLoop(names, i + 1, [st EXCEPT !.scanned = @ + 1], keep_days, cutoff)
         ELSE IF IsOld(DateOfYmd(name.n), cutoff)
         THEN PruneLoop(names, i + 1,
                  [st EXCEPT !.fs = IF st.dry THEN @ ELSE Rmtree(@, name),
                             !.gone = IF st.dry THEN @ ELSE @ \cup {name},
                             !.log = Append(@, LogLine(IF st.dry THEN "dry" ELSE "removing",
                                                       name, 0, 0, 0, StrftimeYmd(cutoff))),
                             !.scanned = @ + 1,
                             !.removed = @ + 1],
                  keep_days, cutoff)
         ELSE PruneLoop(names, i + 1, [st EXCEPT !.scanned = @ + 1], keep_days, cutoff)

ScanCountLate(names, st, keep_days, cutoff) == PruneLoopCountLate(names, 1, st, keep_days, cutoff)

\* lines 126-150
Scan(names, st, keep_days, cutoff) == PruneLoop(names, 1, st, keep_days, cutoff)

PruneStart(fs, dry_run) ==
    [fs |-> fs, dry |-> dry_run, log |-> <<>>, scanned |-> 0, removed |-> 0, gone |-> {}]

\* A pruner that returns without a word when pruning is disabled.
PruneDisabledSilent(fs, dry_run) == PruneStart(fs, dry_run)

\* lines 116-118
PruneDisabled(fs, dry_run) ==
    [PruneStart(fs, dry_run) EXCEPT
        !.log = <<LogLine("skip", TextName(0), 0, 0, 0, 0)>>]

\* prune_old_day_folders(out_dir, keep_days, dry_run), the clock reading today
prune_old_day_folders(fs, keep_days, dry_run, today) ==
    IF keep_days <= 0 THEN PruneDisabled(fs, dry_run)
    ELSE IF ~fs.exists THEN PruneStart(fs, dry_run)
    ELSE Scan(SortedNames(fs.dirs \cup fs.files), PruneStart(fs, dry_run),
              keep_days, CutoffDate(today, keep_days))


(***************************************************************************)
(* Bounds and input sets                                                   *)
(***************************************************************************)
MaxListLen == 3     \* longest payload handed to parse_listing
MaxSelLen  == 3     \* longest free-form input of choose_3hourly
MaxKeep    == 3     \* largest keep_days
MaxRuns    == 3     \* runs of main in a row
MaxTicks   == 1     \* midnights that pass while main runs

SeqUpTo(S, n) == UNION {[1..k -> S] : k \in 0..n}

\* 2024-02-29, the day the inputs are built around
D0 == DateOfYmd(20240229)

ParseElems ==
    { StrElem(FnameV(1, 20240229, 30000)),
      StrElem(FnameV(2, 20240229, 30000)),
      StrElem(FnameV(1, 20240228, 233000)),
      StrElem(FnameV(1, 20240230, 0)),
      StrElem(FnameV(1, 20240229, 240000)),
      StrElem(TextV(1)),
      StrElem(EmptyV),
      DictElem(FnameV(3, 20240229, 0), NoneV, NoneV, NoneV, TextV(7), NoneV),
      DictElem(EmptyV, NoneV, FnameV(4, 20240229, 30000), NoneV, NoneV, NoneV),
      DictElem(NoneV, NoneV, NoneV, NoneV, NoneV, TextV(8)),
      DictElem(NumV(5), NoneV, NoneV, NoneV, NoneV, NoneV),
      OtherElem }

Payloads ==
    {[islist |-> TRUE, elems |-> s] : s \in SeqUpTo(ParseElems, MaxListLen)}
        \cup {[islist |-> FALSE, elems |-> <<>>]}

SelRecord(i, t) == [name |-> TextV(i), url |-> UrlOfBase(TextV(i)), ts |-> t]

SelTimes ==
    { [day |-> D0 - 1, sec |-> 82800], [day |-> D0, sec |-> 3600],
      [day |-> D0, sec |-> 10800], [day |-> D0, sec |-> 18000],
      [day |-> D0, sec |-> 81000] }

SelRecords == {SelRecord(i, t) : i \in 1..2, t \in SelTimes}

\* one record every step hours of the day, named by its hour modulo m,
\* in ascending or in descending order
SelGrid(step, m, rev) ==
    LET n == 24 \div step
        h(k) == step * ((IF rev THEN n + 1 - k ELSE k) - 1)
    IN  [k \in 1..n |-> SelRecord(h(k) % m, [day |-> D0, sec |-> h(k) * 3600])]

SelInputs ==
    SeqUpTo(SelRecords, MaxSelLen)
        \cup {SelGrid(step, m, rev) : step \in {1, 2, 3, 4, 6}, m \in {1, 2, 5, 24},
                                      rev \in BOOLEAN}

SelDays == {[day |-> D0, sec |-> 0], [day |-> D0, sec |-> 1800]}

PruneDayNames ==
    {DayName(n) : n \in {20230229, 20231231, 20240101, 20240229, 20240230, 20240301}}

PruneRoots ==
    {NoFs} \cup
    { [exists |-> TRUE, dirs |-> ds \cup os, files |-> fs,
       content |-> [d \in ds \cup os |-> EmptyDir]] :
        ds \in SUBSET PruneDayNames, os \in SUBSET {TextName(1)},
        fs \in SUBSET {DayName(20230101)} }

PruneTodays == {DateOfYmd(20240101), DateOfYmd(20240301), DateOfYmd(20240302)}

ParseIdle == [st |-> "idle", exc |-> "none", items |-> <<>>]
SelIdle   == [st |-> "idle", chosen |-> <<>>, uniq |-> <<>>]
PruneIdle == [st |-> "idle", r |-> PruneStart(NoFs, FALSE)]

NoPayload == [islist |-> FALSE, elems |-> <<>>]
NoSelIn   == [items |-> <<>>, day |-> [day |-> D0, sec |-> 0]]
NoPruneIn == [fs |-> NoFs, keep_days |-> 0, dry_run |-> FALSE, today |-> D0]

(***************************************************************************)
(* main.  A run is the record job:                                          *)
(*   pc       "idle", "listing" (line 174), "files" (line 196), "exit"     *)
(*   exit     the exit status: 0, 2, or 1 for an uncaught exception        *)
(*   day      day_utc                                                      *)
(*   chosen, i, saved   the loop of lines 196-211 and meta["saved"]        *)
(*   ev       what the run did, in order: "warn", "skip", "get", "index",  *)
(*            "prune"                                                      *)
(*   got      the names whose bytes were requested from the server         *)
(*   start    the day directory after line 171                             *)
(*   wrote    the manifest the run wrote (<<>> if none)                    *)
(*   resolved, pruned   the UTC date read at lines 167 and 120 (0: unread) *)
(*   at_prune the output directory when prune_old_day_folders was called   *)
(*   plog     what prune_old_day_folders printed                           *)
(***************************************************************************)
NoDay == [day |-> 0, sec |-> 0]

IdleRun ==
    [pc |-> "idle", exit |-> 0, day |-> NoDay, chosen |-> <<>>, i |-> 0,
     saved |-> <<>>, ev |-> <<>>, got |-> {}, start |-> EmptyDir, wrote |-> <<>>,
     resolved |-> 0, pruned |-> 0, at_prune |-> NoFs, plog |-> <<>>]

\* line 106: the name of the day directory
DayDirName(day_utc) == DayName(StrftimeYmd(day_utc.day))

\* line 107: os.makedirs(day_dir, exist_ok=True)
Makedirs(f, name) ==
    IF name \in f.dirs THEN f
    ELSE [exists |-> TRUE, dirs |-> f.dirs \cup {name}, files |-> f.files,
          content |-> [d \in f.dirs \cup {name} |->
                          IF d = name THEN EmptyDir ELSE f.content[d]]]

\* lines 98-102: the day directory after safe_write_bytes(dest, data)
WriteFile(dir, name, data) ==
    [dir EXCEPT !.files = [n \in (DOMAIN dir.files) \cup {name} |->
                              IF n = name THEN data ELSE dir.files[n]]]

\* lines 190-194, 205-211: the manifest
Manifest(day_utc, saved) == [day_utc |-> StrftimeYmd(day_utc.day), saved |-> saved]

\* the bytes the server holds at a URL: 0 for an empty body, 1 otherwise
Body(url) == IF url \in srv.empty THEN 0 ELSE 1

\* A test that never finds the file.
HaveFileNever(dir, name) == FALSE

\* line 198: os.path.exists(dest) and os.path.getsize(dest) > 0
HaveFile(dir, name) == name \in DOMAIN dir.files /\ dir.files[name] > 0

\* lines 179-181: the records of the day
RECURSIVE ItemsForDay(_, _, _)
ItemsForDay(items, day_utc, i) ==
    IF i > Len(items) THEN <<>>
    ELSE (IF DtLeq(day_utc, items[i].ts) /\ DtLess(items[i].ts, AddHours(day_utc, 24))
          THEN <<items[i]>> ELSE <<>>) \o ItemsForDay(items, day_utc, i + 1)

\* the run ends with an uncaught exception
Abort(run) == [run EXCEPT !.pc = "exit", !.exit = 1]

\* lines 185/221 and 186/222: prune_old_day_folders, then return 0
PruneAndReturn(run, f) ==
    LET r == prune_old_day_folders(f, env.KEEP_DAYS, env.DRY_RUN_PRUNE, clock.now.day)
    IN  [run |-> [run EXCEPT !.pc = "exit", !.exit = 0, !.ev = Append(@, "prune"),
                             !.pruned = clock.now.day, !.at_prune = f, !.plog = r.log],
         fs |-> r.fs]

\* A no-data branch that returns without pruning.
NoDataNoPrune(run, f) ==
    [run |-> [run EXCEPT !.pc = "exit", !.exit = 0, !.ev = Append(@, "warn")], fs |-> f]

\* lines 183-186
NoData(run, f) == PruneAndReturn([run EXCEPT !.ev = Append(@, "warn")], f)

\* lines 154-171: the environment is read, the day resolved, its directory made
MainStart ==
    /\ job.pc \in {"idle", "exit"}
    /\ hist.runs < MaxRuns
    /\ LET bad == env.DAY_UTC.set /\ ~ValidYmd(env.DAY_UTC.ymd)
           day == IF bad THEN NoDay
                  ELSE IF env.DAY_UTC.set
                       THEN [day |-> DateOfYmd(env.DAY_UTC.ymd), sec |-> 0]
                       ELSE [day |-> clock.now.day - 1, sec |-> 0]
           \* a run that takes up the day of the run that has just aborted
           chained == job.pc = "exit" /\ job.exit = 1 /\ job.day = day
           run == [IdleRun EXCEPT !.day = day,
                      !.resolved = IF env.DAY_UTC.set THEN 0 ELSE clock.now.day]
       IN  /\ hist' = [runs |-> hist.runs + 1, prev |-> job,
                       base |-> IF chained THEN hist.base ELSE disk,
                       first |-> IF chained THEN hist.first ELSE hist.runs + 1]
           /\ IF bad
              THEN /\ job' = [IdleRun EXCEPT !.pc = "exit", !.exit = 2]   \* line 165
                   /\ disk' = disk
              ELSE IF DayDirName(day) \in disk.files
              THEN job' = Abort(run) /\ disk' = disk         \* FileExistsError
              ELSE /\ disk' = Makedirs(disk, DayDirName(day))
                   /\ job' = [run EXCEPT !.pc = "listing",
                                 !.start = Makedirs(disk, DayDirName(day)).content[DayDirName(day)]]
    /\ UNCHANGED <<env, srv, clock, pureVars>>

\* lines 174-194: the listing is fetched, parsed, filtered, and the files chosen
FetchListing ==
    /\ job.pc = "listing"
    /\ \E ok \in BOOLEAN :
          IF ~ok THEN job' = Abort(job) /\ disk' = disk            \* http_get raises
          ELSE LET parsed == parse_listing(srv.listing) IN
               IF parsed.st = "raised" THEN job' = Abort(job) /\ disk' = disk
               ELSE LET items_for_day == ItemsForDay(parsed.items, job.day, 1) IN
                    IF items_for_day = <<>>
                    THEN /\ job' = NoData(job, disk).run
                         /\ disk' = NoData(job, disk).fs
                    ELSE /\ job' = [job EXCEPT !.pc = "files", !.i = 1,
                                    !.chosen = choose_3hourly(items_for_day, job.day).uniq]
                         /\ disk' = disk
    /\ UNCHANGED <<env, srv, clock, hist, pureVars>>

\* lines 196-211: one iteration of the loop over the chosen files
FileStep ==
    /\ job.pc = "files" /\ job.i <= Len(job.chosen)
    /\ LET x == job.chosen[job.i]
           name == DayDirName(job.day)
           dir == disk.content[name]
           next == [job EXCEPT !.i = @ + 1, !.saved = Append(@, x)]
       IN  IF HaveFile(dir, x.name)
           THEN /\ job' = [next EXCEPT !.ev = Append(@, "skip")]
                /\ disk' = disk
           ELSE \E ok \in BOOLEAN :
                  IF ~ok
                  THEN /\ job' = Abort([job EXCEPT !.got = @ \cup {x.name}])
                       /\ disk' = disk
                  ELSE /\ job' = [next EXCEPT !.ev = Append(@, "get"),
                                            !.got = @ \cup {x.name}]
                       /\ disk' = [disk EXCEPT !.content[name] =
                                               WriteFile(dir, x.name, Body(x.url))]
    /\ UNCHANGED <<env, srv, clock, hist, pureVars>>

\* lines 213-222: the manifest is written, the old folders pruned
Finish ==
    /\ job.pc = "files" /\ job.i > Len(job.chosen)
    /\ LET name == DayDirName(job.day)
           meta == Manifest(job.day, job.saved)
           f == [disk EXCEPT !.content[name].index = <<meta>>]
           res == PruneAndReturn([job EXCEPT !.ev = Append(@, "index"),
                                           !.wrote = <<meta>>], f)
       IN  job' = res.run /\ disk' = res.fs
    /\ UNCHANGED <<env, srv, clock, hist, pureVars>>

\* midnight UTC passes
Tick ==
    /\ clock.ticks < MaxTicks
    /\ clock' = [now |-> [clock.now EXCEPT !.day = @ + 1], ticks |-> clock.ticks + 1]
    /\ UNCHANGED <<env, srv, disk, job, hist, pureVars>>

MainPayloads ==
    { [islist |-> TRUE, elems |-> <<>>],
      [islist |-> TRUE, elems |->
          <<StrElem(FnameV(1, 20240229, 30000)),
            DictElem(FnameV(3, 20240229, 0), NoneV, NoneV, NoneV, TextV(7), NoneV)>>],
      [islist |-> TRUE, elems |->
          <<StrElem(FnameV(1, 20240229, 30000)), StrElem(FnameV(2, 20240229, 30000)),
            StrElem(FnameV(1, 20240228, 233000))>>],
      [islist |-> TRUE, elems |-> <<StrElem(FnameV(1, 20240228, 233000))>>],
      [islist |-> TRUE, elems |->
          <<StrElem(FnameV(1, 20240229, 30000)), StrElem(FnameV(1, 20240230, 0))>>],
      [islist |-> FALSE, elems |-> <<>>] }

MainRoots ==
    { NoFs,
      [exists |-> TRUE, dirs |-> {DayName(20240101)}, files |-> {},
       content |-> [d \in {DayName(20240101)} |-> EmptyDir]] }

MainDays ==
    { [set |-> FALSE, ymd |-> 0], [set |-> TRUE, ymd |-> 20240229],
      [set |-> TRUE, ymd |-> 20240227], [set |-> TRUE, ymd |-> 20240230] }

Init ==
    /\ env \in {[DAY_UTC |-> d, KEEP_DAYS |-> k, DRY_RUN_PRUNE |-> dr] :
                   d \in MainDays, k \in 0..MaxKeep, dr \in BOOLEAN}
    /\ srv \in {[listing |-> l, empty |-> e] :
                   l \in MainPayloads,
                   e \in SUBSET {UrlOfBase(FnameV(1, 20240229, 30000))}}
    /\ clock = [now |-> [day |-> D0 + 1, sec |-> 600], ticks |-> 0]
    /\ disk \in MainRoots
    /\ job = IdleRun
    /\ hist = [runs |-> 0, prev |-> IdleRun, base |-> NoFs, first |-> 0]
    /\ list_json = NoPayload /\ parse_out = ParseIdle
    /\ sel_in = NoSelIn /\ sel_out = SelIdle
    /\ prune_in = NoPruneIn /\ prune_out = PruneIdle

Next == MainStart \/ FetchListing \/ FileStep \/ Finish \/ Tick

Spec == Init /\ [][Next]_vars

\* the variables of main while a function is exercised on its own
MainIdle ==
    /\ env = [DAY_UTC |-> [set |-> FALSE, ymd |-> 0], KEEP_DAYS |-> 0,
              DRY_RUN_PRUNE |-> FALSE]
    /\ srv = [listing |-> NoPayload, empty |-> {}]
    /\ clock = [now |-> [day |-> D0 + 1, sec |-> 600], ticks |-> 0]
    /\ disk = NoFs
    /\ job = IdleRun
    /\ hist = [runs |-> 0, prev |-> IdleRun, base |-> NoFs, first |-> 0]


(***************************************************************************)
(* parse_listing on every payload                                          *)
(***************************************************************************)
InitParse ==
    /\ list_json \in Payloads
    /\ parse_out = ParseIdle
    /\ sel_in = NoSelIn /\ sel_out = SelIdle
    /\ prune_in = NoPruneIn /\ prune_out = PruneIdle
    /\ MainIdle

ParseCall ==
    /\ parse_out.st = "idle"
    /\ parse_out' = parse_listing(list_json)
    /\ UNCHANGED <<list_json, sel_in, sel_out, prune_in, prune_out, mainVars>>

NextParse == ParseCall

SpecParse == InitParse /\ [][NextParse]_vars

(***************************************************************************)
(* choose_3hourly on every input                                           *)
(***************************************************************************)
InitChoose ==
    /\ sel_in \in {[items |-> s, day |-> d] : s \in SelInputs, d \in SelDays}
    /\ sel_out = SelIdle
    /\ list_json = NoPayload /\ parse_out = ParseIdle
    /\ prune_in = NoPruneIn /\ prune_out = PruneIdle
    /\ MainIdle

ChooseCall ==
    /\ sel_out.st = "idle"
    /\ sel_out' = choose_3hourly(sel_in.items, sel_in.day)
    /\ UNCHANGED <<list_json, parse_out, sel_in, prune_in, prune_out, mainVars>>

NextChoose == ChooseCall

SpecChoose == InitChoose /\ [][NextChoose]_vars

(***************************************************************************)
(* prune_old_day_folders on every directory, keep_days and clock           *)
(***************************************************************************)
InitPrune ==
    /\ prune_in \in {[fs |-> f, keep_days |-> k, dry_run |-> dr, today |-> t] :
                        f \in PruneRoots, k \in (-1)..MaxKeep, dr \in BOOLEAN,
                        t \in PruneTodays}
    /\ prune_out = PruneIdle
    /\ list_json = NoPayload /\ parse_out = ParseIdle
    /\ sel_in = NoSelIn /\ sel_out = SelIdle
    /\ MainIdle

PruneCall ==
    /\ prune_out.st = "idle"
    /\ prune_out' = [st |-> "done",
                     r |-> prune_old_day_folders(prune_in.fs, prune_in.keep_days,
                                                 prune_in.dry_run, prune_in.today)]
    /\ UNCHANGED <<list_json, parse_out, sel_in, sel_out, prune_in, mainVars>>

NextPrune == PruneCall

SpecPrune == InitPrune /\ [][NextPrune]_vars


(***************************************************************************)
(* Claims about parse_listing (SpecParse)                                  *)
(***************************************************************************)
\* the element's name is a string in which FNAME_RE finds a match
NameMatches(it) == ElemName(it).t = "str" /\ ElemName(it).pat

\* C4: whenever parse_listing returns, its result is in non-decreasing
\* timestamp order, holds exactly one record for each payload element whose
\* name matched the filename pattern, and records of equal timestamp keep the
\* relative order they had in the payload: the record of matched element i
\* stands at the position that counts the matched elements of smaller
\* timestamp and those of equal timestamp at or before i.
C4_SortedExactStable ==
    parse_out.st = "ok" =>
        LET elems == list_json.elems
            items == parse_out.items
            M == {i \in 1..Len(elems) : NameMatches(elems[i])}
            ts(i) == TsOfName(ElemName(elems[i]))
            Rank(i) == Cardinality({j \in M : DtLess(ts(j), ts(i))
                                              \/ (ts(j) = ts(i) /\ j <= i)})
        IN  /\ Len(items) = Cardinality(M)
            /\ \A k \in 1..(Len(items) - 1) : DtLeq(items[k].ts, items[k + 1].ts)
            /\ \A i \in M : items[Rank(i)] = RecordOf(elems[i])

\* C4 witness: a payload given out of order, with two different names of equal
\* timestamp and an element that does not match, has been parsed.
C4_Witness ==
    /\ parse_out.st = "ok"
    /\ Len(list_json.elems) = 3
    /\ Len(parse_out.items) = 2
    /\ parse_out.items[1].ts = parse_out.items[2].ts
    /\ parse_out.items[1].name # parse_out.items[2].name
    /\ ~NameMatches(list_json.elems[2])

\* C5 (as claimed): parse_listing raises only when the payload is not a list.
C5_RaisesOnlyOnNonList ==
    parse_out.st = "raised" => ~list_json.islist

(***************************************************************************)
(* Claims about choose_3hourly (SpecChoose)                                *)
(***************************************************************************)
\* C2: for a non-empty input the result has between 1 and 8 records, each of
\* them an element of the input, and no two of them have the same name.
C2_SelectionShape ==
    (sel_out.st # "idle" /\ sel_in.items # <<>>) =>
        LET u == sel_out.uniq IN
        /\ sel_out.st = "ok"
        /\ Len(u) \in 1..8
        /\ \A k \in 1..Len(u) : \E i \in 1..Len(sel_in.items) : u[k] = sel_in.items[i]
        /\ \A k, l \in 1..Len(u) : k # l => u[k].name # u[l].name

\* C2 witness: among the 8 picks a name came back after another one, and the
\* result holds it once.
C2_Witness ==
    /\ sel_out.st = "ok"
    /\ Len(sel_out.uniq) \in 2..7
    /\ \E k, l \in 1..8 : k + 1 < l /\ sel_out.chosen[k].name = sel_out.chosen[l].name
                          /\ sel_out.chosen[k + 1].name # sel_out.chosen[k].name

\* the upper end of C2: a result that holds 8 records
C2_WitnessFull == sel_out.st = "ok" /\ Len(sel_out.uniq) = 8

\* C3: the pick for each of the 8 targets is the input record of minimal
\* absolute distance to the target, and among the records at that minimal
\* distance the one of smallest index.
C3_FirstMinimal ==
    sel_out.st = "ok" =>
        \A k \in 1..8 :
            LET t == AddHours(sel_in.day, 3 * (k - 1))
                items == sel_in.items
                IsMin(i) == \A j \in 1..Len(items) : Dist(items[i], t) <= Dist(items[j], t)
                first == CHOOSE i \in 1..Len(items) :
                            IsMin(i) /\ \A j \in 1..(i - 1) : ~IsMin(j)
            IN  sel_out.chosen[k] = items[first]

\* C3 witness: for some target two different records are at the same minimal
\* distance, the first of them in the input has the later timestamp, and it
\* is the pick.
C3_Witness ==
    /\ sel_out.st = "ok"
    /\ \E k \in 1..8 : \E i, j \in 1..Len(sel_in.items) :
          LET t == AddHours(sel_in.day, 3 * (k - 1))
              items == sel_in.items
          IN  /\ i < j
              /\ items[i] # items[j]
              /\ DtLess(items[j].ts, items[i].ts)
              /\ Dist(items[i], t) = Dist(items[j], t)
              /\ \A m \in 1..Len(items) : Dist(items[i], t) <= Dist(items[m], t)
              /\ sel_out.chosen[k] = items[i]

(***************************************************************************)
(* Claims about prune_old_day_folders (SpecPrune)                          *)
(***************************************************************************)
\* the subdirectories whose names are 8 digits, and those that are dates
DayDirs(fs)   == {name \in fs.dirs : DAYDIR_RE(name)}
DateDirs(fs)  == {name \in DayDirs(fs) : ValidYmd(name.n)}

\* the date is within the keep_days days that end today
InWindow(name, today, keep_days) == DateOfYmd(name.n) + (keep_days - 1) >= today

BadDateDirs(fs) == DayDirs(fs) \ DateDirs(fs)

\* C7 (as claimed): a subdirectory whose 8-digit name is not a date is not
\* counted in scanned, not counted in removed, not removed, and the scan goes
\* on to the summary.
C7_BadDateNotScanned ==
    (prune_out.st = "done" /\ prune_in.keep_days >= 1 /\ prune_in.fs.exists) =>
        LET r == prune_out.r IN
        /\ r.scanned = Cardinality(DateDirs(prune_in.fs))
        /\ r.removed = Cardinality({n \in DateDirs(prune_in.fs) :
                                      ~InWindow(n, prune_in.today, prune_in.keep_days)})
        /\ BadDateDirs(prune_in.fs) \subseteq r.fs.dirs
        /\ r.log[Len(r.log)].msg = "summary"

\* C7 (amended): a subdirectory whose 8-digit name is not a date is counted in
\* scanned, is not counted in removed, is not removed, and the scan goes on
\* with the next entry up to the summary.
C7_BadDateScannedKept ==
    (prune_out.st = "done" /\ prune_in.keep_days >= 1 /\ prune_in.fs.exists) =>
        LET r == prune_out.r IN
        /\ r.scanned = Cardinality(DayDirs(prune_in.fs))
        /\ r.removed = Cardinality({n \in DateDirs(prune_in.fs) :
                                      ~InWindow(n, prune_in.today, prune_in.keep_days)})
        /\ BadDateDirs(prune_in.fs) \subseteq r.fs.dirs
        /\ \A k \in 1..Len(r.log) : r.log[k].name \notin BadDateDirs(prune_in.fs)
        /\ r.log[Len(r.log)].msg = "summary"

\* C7 witness: a directory named 20240230 was scanned, is still there, and a
\* directory that sorts after it was removed.
C7_Witness ==
    /\ prune_out.st = "done" /\ prune_in.keep_days >= 1 /\ ~prune_in.dry_run
    /\ DayName(20240230) \in prune_out.r.fs.dirs
    /\ DayName(20240301) \in prune_out.r.gone
    /\ prune_out.r.scanned > Cardinality(DateDirs(prune_in.fs))

\* the summary line of a call
IsSummary(line, r, in) ==
    /\ line.msg = "summary"
    /\ line.scanned = r.scanned /\ line.removed = r.removed
    /\ line.keep_days = in.keep_days
    /\ ValidYmd(line.cutoff)
    /\ DateOfYmd(line.cutoff) = in.today - (in.keep_days - 1)

\* C8 (as claimed): every call emits the summary, whatever keep_days is and
\* whether or not the root exists.
C8_AlwaysSummary ==
    prune_out.st = "done" =>
        /\ prune_out.r.log # <<>>
        /\ IsSummary(prune_out.r.log[Len(prune_out.r.log)], prune_out.r, prune_in)

\* C8 (amended): a call with keep_days >= 1 on an existing root ends by
\* emitting the summary (scanned, removed, keep_days, cutoff date), with
\* removed counting the date-named directories older than the cutoff; a call
\* with keep_days <= 0 emits only the notice that pruning is skipped and one
\* on a missing root emits nothing, and both remove nothing.
C8_SummaryWhenScanning ==
    prune_out.st = "done" =>
        LET r == prune_out.r IN
        /\ (prune_in.keep_days >= 1 /\ prune_in.fs.exists) =>
              /\ r.log # <<>>
              /\ IsSummary(r.log[Len(r.log)], r, prune_in)
              /\ \A k \in 1..(Len(r.log) - 1) : r.log[k].msg # "summary"
              /\ r.removed = Cardinality({n \in DateDirs(prune_in.fs) :
                                  ~InWindow(n, prune_in.today, prune_in.keep_days)})
        /\ prune_in.keep_days <= 0 =>
              /\ Len(r.log) = 1 /\ r.log[1].msg = "skip"
              /\ r.fs = prune_in.fs /\ r.removed = 0
        /\ (prune_in.keep_days >= 1 /\ ~prune_in.fs.exists) =>
              /\ r.log = <<>>
              /\ r.fs = prune_in.fs /\ r.removed = 0 /\ r.scanned = 0

\* C8 witness: a call that scanned, removed some directories and kept others,
\* across the end of February of a leap year, has emitted its summary.
C8_Witness ==
    /\ prune_out.st = "done"
    /\ prune_out.r.removed >= 2
    /\ prune_out.r.scanned > prune_out.r.removed + 1
    /\ prune_out.r.log[Len(prune_out.r.log)].cutoff = 20240229


(***************************************************************************)
(* Claims about main (Spec)                                                *)
(***************************************************************************)
Exited(run, code) == run.pc = "exit" /\ run.exit = code

\* the listing holds no record of the run's day
NoRecordOfDay(run) ==
    LET parsed == parse_listing(srv.listing)
    IN  parsed.st = "ok" /\
        \A k \in 1..Len(parsed.items) :
            ~(DtLeq(run.day, parsed.items[k].ts)
              /\ DtLess(parsed.items[k].ts, [day |-> run.day.day + 1, sec |-> 0]))

ChosenNames(run) == {run.chosen[k].name : k \in 1..Len(run.chosen)}

\* every chosen file and the manifest of the run are in the day directory of f
AllSaved(run, f) ==
    /\ DayDirName(run.day) \in f.dirs
    /\ LET dir == f.content[DayDirName(run.day)] IN
       /\ ChosenNames(run) \subseteq DOMAIN dir.files
       /\ dir.index = <<Manifest(run.day, run.chosen)>>

\* C6: a run that ends with exit code 0 called prune_old_day_folders exactly
\* once, as its last step: on the no-data path right after the warning, with
\* no file requested and no manifest written; on the normal path once every
\* chosen file and the manifest were in the day directory.
C6_PruneOnceLast ==
    Exited(job, 0) =>
        LET ev == job.ev IN
        /\ ev # <<>> /\ ev[Len(ev)] = "prune"
        /\ Cardinality({k \in 1..Len(ev) : ev[k] = "prune"}) = 1
        /\ job.pruned # 0
        /\ IF NoRecordOfDay(job)
           THEN /\ ev = <<"warn", "prune">>
                /\ job.got = {} /\ job.wrote = <<>>
                /\ job.at_prune.content[DayDirName(job.day)] = job.start
           ELSE /\ Len(ev) = Len(job.chosen) + 2
                /\ \A k \in 1..Len(job.chosen) : ev[k] \in {"get", "skip"}
                /\ ev[Len(ev) - 1] = "index"
                /\ job.chosen # <<>>
                /\ AllSaved(job, job.at_prune)

\* C6 witness: a run on the no-data path has returned 0, after a run on the
\* normal path that requested two files and returned 0.
C6_Witness ==
    /\ Exited(job, 0) /\ job.ev = <<"warn", "prune">>
    /\ Exited(hist.prev, 0) /\ hist.prev.ev = <<"get", "get", "index", "prune">>

\* the day directory of a run that goes through from the directory f without
\* a failed request
Uninterrupted(f, run) ==
    LET name == DayDirName(run.day)
        f1 == Makedirs(f, name)
        old == f1.content[name].files
        Url(n) == (CHOOSE x \in {run.chosen[k] : k \in 1..Len(run.chosen)} : x.name = n).url
        Kept(n) == n \in DOMAIN old /\ old[n] > 0
    IN  [f1 EXCEPT !.content[name] =
            [files |-> [n \in (DOMAIN old) \cup ChosenNames(run) |->
                            IF n \in ChosenNames(run) /\ ~Kept(n)
                            THEN Body(Url(n)) ELSE old[n]],
             index |-> <<Manifest(run.day, run.chosen)>>]]

\* the run before this one was for the same day
SameDayAsPrev == job.day # NoDay /\ hist.prev.day = job.day

\* the names a run finds absent or empty in the day directory when it starts
Missing(run) ==
    {n \in ChosenNames(run) : n \notin DOMAIN run.start.files \/ run.start.files[n] = 0}

\* a run after one aborted for the same day requests only chosen files that
\* are absent or empty in the day directory
C9_RerunFetchesMissing ==
    (hist.prev.pc = "exit" /\ hist.prev.exit = 1 /\ SameDayAsPrev) =>
        job.got \subseteq Missing(job)

\* when a run that took up aborted ones succeeds, the output directory at
\* the pruning step is the one a run without failure produces
C9_RerunSameResult ==
    (Exited(job, 0) /\ job.wrote # <<>>) =>
        job.at_prune = Uninterrupted(hist.base, job)

PrevSucceeded == Exited(hist.prev, 0) /\ hist.prev.wrote # <<>> /\ SameDayAsPrev

\* C9 (as claimed): a run that follows aborted runs for the same day requests
\* only the chosen files not already present with non-zero size, ends with the
\* files and manifest of an uninterrupted run, and a run after a success
\* requests no file and rewrites an identical manifest.
C9_Idempotent ==
    /\ C9_RerunFetchesMissing
    /\ C9_RerunSameResult
    /\ PrevSucceeded =>
          /\ job.got = {}
          /\ Exited(job, 0) => job.wrote = hist.prev.wrote

\* C9 (amended): as claimed, except that the run after a success requests
\* the chosen files that are absent or empty in the day directory: none when
\* the pruning of the earlier run left the day directory in place and every
\* chosen file has a non-empty body, all of them when the day directory was
\* pruned.
C9_IdempotentWhileKept ==
    /\ C9_RerunFetchesMissing
    /\ C9_RerunSameResult
    /\ PrevSucceeded =>
          /\ job.got \subseteq Missing(job)
          /\ (DayDirName(job.day) \in hist.base.dirs
              /\ \A k \in 1..Len(hist.prev.chosen) : Body(hist.prev.chosen[k].url) # 0)
                => job.got = {}
          /\ Exited(job, 0) =>
                /\ job.wrote = hist.prev.wrote
                /\ DayDirName(job.day) \notin hist.base.dirs => job.got = ChosenNames(job)

\* C9 witness: a run aborted by its second request after saving one file, the
\* next run skipped that file, requested the other and returned 0.
C9_Witness ==
    /\ Exited(job, 0) /\ job.ev = <<"skip", "get", "index", "prune">>
    /\ hist.prev.pc = "exit" /\ hist.prev.exit = 1 /\ SameDayAsPrev
    /\ hist.prev.ev = <<"get">> /\ Cardinality(hist.prev.got) = 2
    /\ hist.first < hist.runs

\* C10: with no DAY_UTC, keep_days >= 2 and the same UTC date at the
\* resolution of the day and at the pruning step, a run that ends with exit
\* code 0 leaves the target day's directory in place, with the files and the
\* manifest it has just written.
C10_TargetDayKept ==
    (Exited(job, 0) /\ ~env.DAY_UTC.set /\ env.KEEP_DAYS >= 2
        /\ job.resolved = job.pruned) =>
        /\ DayDirName(job.day) \in disk.dirs
        /\ job.wrote # <<>> => AllSaved(job, disk)

\* C10 witness: with keep_days = 2 such a run saved its files, and its
\* pruning step removed an older directory.
C10_Witness ==
    /\ Exited(job, 0) /\ ~env.DAY_UTC.set /\ env.KEEP_DAYS = 2 /\ ~env.DRY_RUN_PRUNE
    /\ job.resolved = job.pruned
    /\ "get" \in {job.ev[k] : k \in 1..Len(job.ev)}
    /\ DayName(20240101) \in job.at_prune.dirs
    /\ DayName(20240101) \notin disk.dirs


====
